---- MODULE Spec2Model ----
(***************************************************************************)
(* Hotel cost calculator for the Paradores of El Hierro and La Palma       *)
(* (elhierro_lapalma.py): the room allocator HotelAllocator, the cost      *)
(* functions of HotelCostCalculator and the comparison report.             *)
(*                                                                         *)
(* A behaviour is one call of a public entry point by a client:            *)
(*   HotelAllocator(config).allocate_rooms(num_people),                    *)
(*   HotelCostCalculator().calculate_total_price_per_person(n, key), or    *)
(*   HotelCostCalculator().print_comparison(group_sizes).                  *)
(* Money that Python holds in a float after a true division is kept here   *)
(* as an exact fraction [num, den]; the integer amounts stay integers.     *)
(***************************************************************************)
EXTENDS Integers, Sequences, FiniteSets, TLC

VARIABLES
    entry,            \* the public entry point the client called ("none" before)
    nights,           \* the module global NIGHTS as the functions read it
    pc,               \* position of the running call
    config,           \* the HotelConfig in use (self.config / hotels[hotel_key])
    hotel_key,        \* argument hotel_key of the calculator methods
    num_people,       \* argument num_people
    allocation,       \* local `allocation` of allocate_rooms (None until line 102)
    people_remaining, \* local `people_remaining` of allocate_rooms
    err,              \* the exception in flight (NoErr when none)
    accommodation,    \* accommodation cost per person (a fraction)
    result,           \* value returned by calculate_total_price_per_person
    group_sizes,      \* argument of print_comparison after defaulting
    hotel_idx,        \* position of the outer loop of print_comparison
    size_idx,         \* position of the inner loop of print_comparison
    out               \* what print_comparison has printed: headers and rows

vars == <<entry, nights, pc, config, hotel_key, num_people, allocation,
          people_remaining, err, accommodation, result, group_sizes,
          hotel_idx, size_idx, out>>

-----------------------------------------------------------------------------
(* Bounds of the model *)

\* generic configurations: room counts 0..MaxRooms per category
MaxRooms == 2
\* generic configurations: every rate in 1..MaxRate
MaxRate == 4
\* group sizes tried against the two configured hotels: -1..MaxGroup
MaxGroup == 92
\* longest group_sizes list handed to print_comparison
MaxList == 2
\* largest value of the global NIGHTS tried in SpecDuration
MaxNights == 6

-----------------------------------------------------------------------------
(* Global configuration *)

NIGHTS == 5
MEAL_COST_PER_PERSON == 38

-----------------------------------------------------------------------------
(* Values *)

None == [unbound |-> TRUE]
NoErr == [type |-> "none"]

Frac(n, d) == [num |-> n, den |-> d]
FracOfInt(n) == Frac(n, 1)
FracAdd(a, b) == Frac(a.num * b.den + b.num * a.den, a.den * b.den)
FracTimesInt(a, n) == Frac(a.num * n, a.den)

Min(a, b) == IF a <= b THEN a ELSE b

RoomAllocation == [standard_shared |-> 0, standard_single |-> 0,
                   superior_shared |-> 0, superior_single |-> 0]

HotelKeys == <<"el_hierro", "la_palma">>

Hotels ==
    [k \in {"el_hierro", "la_palma"} |->
        IF k = "el_hierro"
        THEN [name |-> "Parador de El Hierro",
              inventory |-> [standard_count |-> 20, superior_count |-> 20],
              rates |-> [standard |-> [shared_rate |-> 158, single_rate |-> 136],
                         superior |-> [shared_rate |-> 181, single_rate |-> 159]],
              coffee_break_cost |-> 7,
              meeting_room_cost |-> 200]
        ELSE [name |-> "Parador de La Palma",
              inventory |-> [standard_count |-> 21, superior_count |-> 24],
              rates |-> [standard |-> [shared_rate |-> 164, single_rate |-> 144],
                         superior |-> [shared_rate |-> 186, single_rate |-> 166]],
              coffee_break_cost |-> 8,
              meeting_room_cost |-> 800]]

\* configurations a client may hand to HotelAllocator directly
GenericConfigs ==
    { [name |-> "generic",
       inventory |-> [standard_count |-> sc, superior_count |-> pc_],
       rates |-> [standard |-> [shared_rate |-> r[1], single_rate |-> r[2]],
                  superior |-> [shared_rate |-> r[3], single_rate |-> r[4]]],
       coffee_break_cost |-> 1,
       meeting_room_cost |-> 1] :
      sc \in 0..MaxRooms, pc_ \in 0..MaxRooms,
      r \in [1..4 -> 1..MaxRate] }

-----------------------------------------------------------------------------
(* RoomAllocation and HotelConfig methods *)

get_total_cost(a, rates, n) ==
    (a.standard_shared * rates.standard.shared_rate +
     a.standard_single * rates.standard.single_rate +
     a.superior_shared * rates.superior.shared_rate +
     a.superior_single * rates.superior.single_rate) * n

get_total_rooms_used(a) ==
    a.standard_shared + a.standard_single + a.superior_shared + a.superior_single

\* a slip: the superior rooms counted once
get_max_capacity_Miscounted(c) ==
    c.inventory.standard_count * 2 + c.inventory.superior_count

get_max_capacity(c) ==
    c.inventory.standard_count * 2 + c.inventory.superior_count * 2

-----------------------------------------------------------------------------
(* HotelAllocator *)

\* a slip: the sort made descending
SortedRoomTypes_Descending(cost_std, cost_sup) ==
    IF cost_std >= cost_sup THEN <<"standard", "superior">>
                            ELSE <<"superior", "standard">>

\* room_costs.sort() on (cost, name) pairs: by cost, a tie by name, and
\* "standard" < "superior".  cost_std and cost_sup are the two costs.
SortedRoomTypes(cost_std, cost_sup) ==
    IF cost_std <= cost_sup THEN <<"standard", "superior">>
                            ELSE <<"superior", "standard">>

\* a slip: the sort left out, standard always first
SharedOrder_Unsorted(c) == <<"standard", "superior">>

\* the shared phase compares shared_rate / 2 of the two categories; halving
\* is monotone, so the costs are kept in half euros (twice the float)
SharedOrder(c) ==
    SortedRoomTypes(c.rates.standard.shared_rate, c.rates.superior.shared_rate)

SingleOrder(c) ==
    SortedRoomTypes(c.rates.standard.single_rate, c.rates.superior.single_rate)

\* a slip: one person taken off per shared room
SharedBody_OnePerRoom(c, st, room_type) ==
    IF room_type = "standard"
    THEN LET rooms_available == c.inventory.standard_count - st.allocation.standard_shared
             rooms_to_use == Min(rooms_available, st.people_remaining \div 2)
         IN  [allocation |-> [st.allocation EXCEPT !.standard_shared = rooms_to_use],
              people_remaining |-> st.people_remaining - rooms_to_use]
    ELSE LET rooms_available == c.inventory.superior_count - st.allocation.superior_shared
             rooms_to_use == Min(rooms_available, st.people_remaining \div 2)
         IN  [allocation |-> [st.allocation EXCEPT !.superior_shared = rooms_to_use],
              people_remaining |-> st.people_remaining - rooms_to_use]

\* one pass of the loop body of _allocate_shared_rooms (lines 131-140)
SharedBody(c, st, room_type) ==
    IF room_type = "standard"
    THEN LET rooms_available == c.inventory.standard_count - st.allocation.standard_shared
             rooms_to_use == Min(rooms_available, st.people_remaining \div 2)
         IN  [allocation |-> [st.allocation EXCEPT !.standard_shared = rooms_to_use],
              people_remaining |-> st.people_remaining - rooms_to_use * 2]
    ELSE LET rooms_available == c.inventory.superior_count - st.allocation.superior_shared
             rooms_to_use == Min(rooms_available, st.people_remaining \div 2)
         IN  [allocation |-> [st.allocation EXCEPT !.superior_shared = rooms_to_use],
              people_remaining |-> st.people_remaining - rooms_to_use * 2]

\* a slip: the rooms already shared not taken off the rooms available
SingleBody_IgnoresShared(c, st, room_type) ==
    IF room_type = "standard"
    THEN LET rooms_available == c.inventory.standard_count
                                - st.allocation.standard_single
             rooms_to_use == Min(rooms_available, st.people_remaining)
         IN  [allocation |-> [st.allocation EXCEPT !.standard_single = rooms_to_use],
              people_remaining |-> st.people_remaining - rooms_to_use]
    ELSE LET rooms_available == c.inventory.superior_count
                                - st.allocation.superior_single
             rooms_to_use == Min(rooms_available, st.people_remaining)
         IN  [allocation |-> [st.allocation EXCEPT !.superior_single = rooms_to_use],
              people_remaining |-> st.people_remaining - rooms_to_use]

\* one pass of the loop body of _allocate_single_rooms (lines 159-170)
SingleBody(c, st, room_type) ==
    IF room_type = "standard"
    THEN LET rooms_available == c.inventory.standard_count
                                - st.allocation.standard_shared
                                - st.allocation.standard_single
             rooms_to_use == Min(rooms_available, st.people_remaining)
         IN  [allocation |-> [st.allocation EXCEPT !.standard_single = rooms_to_use],
              people_remaining |-> st.people_remaining - rooms_to_use]
    ELSE LET rooms_available == c.inventory.superior_count
                                - st.allocation.superior_shared
                                - st.allocation.superior_single
             rooms_to_use == Min(rooms_available, st.people_remaining)
         IN  [allocation |-> [st.allocation EXCEPT !.superior_single = rooms_to_use],
              people_remaining |-> st.people_remaining - rooms_to_use]

\* for cost_per_person, room_type in room_costs: break when nobody remains
RECURSIVE SharedLoop(_, _, _, _)
SharedLoop(c, st, order, i) ==
    IF i > Len(order) \/ st.people_remaining <= 0
    THEN st
    ELSE SharedLoop(c, SharedBody(c, st, order[i]), order, i + 1)

RECURSIVE SingleLoop(_, _, _, _)
SingleLoop(c, st, order, i) ==
    IF i > Len(order) \/ st.people_remaining <= 0
    THEN st
    ELSE SingleLoop(c, SingleBody(c, st, order[i]), order, i + 1)

\* a slip: the shared phase stops after the first category
_allocate_shared_rooms_FirstOnly(c, a, remaining) ==
    IF remaining <= 0
    THEN [allocation |-> a, people_remaining |-> remaining]
    ELSE SharedBody(c, [allocation |-> a, people_remaining |-> remaining],
                    SharedOrder(c)[1])

_allocate_shared_rooms(c, a, remaining) ==
    SharedLoop(c, [allocation |-> a, people_remaining |-> remaining], SharedOrder(c), 1)

_allocate_single_rooms(c, a, remaining) ==
    SingleLoop(c, [allocation |-> a, people_remaining |-> remaining], SingleOrder(c), 1)

-----------------------------------------------------------------------------
(* HotelCostCalculator: the cost functions *)

\* a slip: three meals counted on every one of the n days
calculate_meal_cost_EveryDay(n) == 3 * n * MEAL_COST_PER_PERSON

calculate_meal_cost(n) ==
    LET total_meals_per_person == 1 + (3 * (n - 2)) + 1
    IN  total_meals_per_person * MEAL_COST_PER_PERSON

calculate_coffee_break_cost(c, n) ==
    LET coffee_breaks_per_person == 2 * (n - 2)
    IN  coffee_breaks_per_person * c.coffee_break_cost

\* config.meeting_room_cost / num_people, a true division (num_people # 0)
calculate_meeting_room_cost(c, people) == Frac(c.meeting_room_cost, people)

\* accommodation_cost + meal_cost + coffee_break_cost + meeting_room_cost
SumOfComponents(acc, meals, coffee, meeting) ==
    FracAdd(FracAdd(FracAdd(acc, FracOfInt(meals)), FracOfInt(coffee)), meeting)

-----------------------------------------------------------------------------
(* Exceptions *)

ExceedsError(people, capacity) ==
    [type |-> "ValueError", message |-> "Group size exceeds hotel maximum capacity",
     group_size |-> people, max_capacity |-> capacity]

FailedError ==
    [type |-> "ValueError", message |-> "Failed to allocate all people to rooms"]

UnknownHotelError(key) ==
    [type |-> "ValueError", message |-> "Unknown hotel", hotel |-> key]

ZeroDivisionError ==
    [type |-> "ZeroDivisionError", message |-> "division by zero"]

-----------------------------------------------------------------------------
(* Inputs *)

\* group sizes offered to print_comparison: non-positive ones, sizes that fit
\* both hotels, one that fits only La Palma (80 < 85 <= 90), one that fits none
ReportSizes == {-1, 0, 30, 45, 85, 95}

SizeLists == UNION { [1..n -> ReportSizes] : n \in 0..MaxList }

DefaultGroupSizes == <<30, 40, 50>>

\* the optional argument group_sizes: <<>> is None, <<l>> is the list l
GroupSizeArgs == {<<>>} \cup { <<l>> : l \in SizeLists }

-----------------------------------------------------------------------------
(* Initial state: the module is loaded, nothing has been called *)

InitRest ==
    /\ entry = "none"
    /\ pc = "idle"
    /\ config = None
    /\ hotel_key = ""
    /\ num_people = 0
    /\ allocation = None
    /\ people_remaining = 0
    /\ err = NoErr
    /\ accommodation = None
    /\ result = None
    /\ group_sizes = <<>>
    /\ hotel_idx = 0
    /\ size_idx = 0
    /\ out = <<>>

Init == nights = NIGHTS /\ InitRest

\* the global NIGHTS rebound by whoever configures the module
InitDuration == nights \in 0..MaxNights /\ InitRest

-----------------------------------------------------------------------------
(* The client's calls *)

\* HotelAllocator(c).allocate_rooms(n)
AllocateRoomsCall ==
    /\ pc = "idle"
    /\ \E c \in GenericConfigs, n \in (-1)..(4 * MaxRooms + 1) :
          /\ config' = c
          /\ num_people' = n
    /\ entry' = "allocate_rooms"
    /\ pc' = "allocate_rooms"
    /\ UNCHANGED <<nights, hotel_key, allocation, people_remaining, err,
                   accommodation, result, group_sizes, hotel_idx, size_idx, out>>

\* HotelCostCalculator().calculate_total_price_per_person(n, k)
TotalPriceCall ==
    /\ pc = "idle"
    /\ \E k \in {"el_hierro", "la_palma", "tenerife"}, n \in (-1)..MaxGroup :
          /\ hotel_key' = k
          /\ num_people' = n
    /\ entry' = "total_price"
    /\ pc' = "calculate_accommodation_cost"
    /\ UNCHANGED <<nights, config, allocation, people_remaining, err,
                   accommodation, result, group_sizes, hotel_idx, size_idx, out>>

\* HotelCostCalculator().print_comparison(gs), gs a list or None
PrintComparisonCall ==
    /\ pc = "idle"
    /\ \E gs \in GroupSizeArgs :
          group_sizes' = IF gs = <<>> THEN DefaultGroupSizes ELSE gs[1]
    /\ entry' = "print_comparison"
    /\ hotel_idx' = 1
    /\ pc' = "hotel"
    /\ UNCHANGED <<nights, config, hotel_key, num_people, allocation,
                   people_remaining, err, accommodation, result, size_idx, out>>

-----------------------------------------------------------------------------
(* calculate_accommodation_cost and allocate_rooms, step by step *)

\* lines 208-213: look the hotel up and call its allocator
CalculateAccommodationCost ==
    /\ pc = "calculate_accommodation_cost"
    /\ IF hotel_key \notin DOMAIN Hotels
       THEN /\ err' = UnknownHotelError(hotel_key)
            /\ pc' = "raised"
            /\ UNCHANGED config
       ELSE /\ config' = Hotels[hotel_key]
            /\ pc' = "allocate_rooms"
            /\ UNCHANGED err
    /\ UNCHANGED <<entry, nights, hotel_key, num_people, allocation,
                   people_remaining, accommodation, result, group_sizes,
                   hotel_idx, size_idx, out>>

\* lines 99-103: the capacity guard, then a fresh allocation
AllocateRooms ==
    /\ pc = "allocate_rooms"
    /\ IF num_people > get_max_capacity(config)
       THEN /\ err' = ExceedsError(num_people, get_max_capacity(config))
            /\ pc' = "raised"
            /\ UNCHANGED <<allocation, people_remaining>>
       ELSE /\ allocation' = RoomAllocation
            /\ people_remaining' = num_people
            /\ pc' = "shared"
            /\ UNCHANGED err
    /\ UNCHANGED <<entry, nights, config, hotel_key, num_people, accommodation,
                   result, group_sizes, hotel_idx, size_idx, out>>

\* line 106: people_remaining = self._allocate_shared_rooms(allocation, people_remaining)
AllocateSharedRooms ==
    /\ pc = "shared"
    /\ LET st == _allocate_shared_rooms(config, allocation, people_remaining)
       IN  /\ allocation' = st.allocation
           /\ people_remaining' = st.people_remaining
    /\ pc' = "single"
    /\ UNCHANGED <<entry, nights, config, hotel_key, num_people, err,
                   accommodation, result, group_sizes, hotel_idx, size_idx, out>>

\* line 109: people_remaining = self._allocate_single_rooms(allocation, people_remaining)
AllocateSingleRooms ==
    /\ pc = "single"
    /\ LET st == _allocate_single_rooms(config, allocation, people_remaining)
       IN  /\ allocation' = st.allocation
           /\ people_remaining' = st.people_remaining
    /\ pc' = "check"
    /\ UNCHANGED <<entry, nights, config, hotel_key, num_people, err,
                   accommodation, result, group_sizes, hotel_idx, size_idx, out>>

\* lines 111-114: the final check, then return allocation
AllocateRoomsReturn ==
    /\ pc = "check"
    /\ IF people_remaining > 0
       THEN /\ err' = FailedError
            /\ pc' = "raised"
       ELSE /\ pc' = "returned"
            /\ UNCHANGED err
    /\ UNCHANGED <<entry, nights, config, hotel_key, num_people, allocation,
                   people_remaining, accommodation, result, group_sizes,
                   hotel_idx, size_idx, out>>

\* lines 215-216: total_accommodation_cost / num_people
AccommodationReturn ==
    /\ pc = "returned"
    /\ entry # "allocate_rooms"
    /\ IF num_people = 0
       THEN /\ err' = ZeroDivisionError
            /\ pc' = "raised"
            /\ UNCHANGED accommodation
       ELSE /\ accommodation' =
                  Frac(get_total_cost(allocation, config.rates, nights), num_people)
            /\ pc' = "costs"
            /\ UNCHANGED err
    /\ UNCHANGED <<entry, nights, config, hotel_key, num_people, allocation,
                   people_remaining, result, group_sizes, hotel_idx, size_idx, out>>

\* lines 252-255: the other three components and their sum
TotalPriceReturn ==
    /\ pc = "costs"
    /\ entry = "total_price"
    /\ result' = SumOfComponents(accommodation,
                                 calculate_meal_cost(nights),
                                 calculate_coffee_break_cost(config, nights),
                                 calculate_meeting_room_cost(config, num_people))
    /\ pc' = "done"
    /\ UNCHANGED <<entry, nights, config, hotel_key, num_people, allocation,
                   people_remaining, err, accommodation, group_sizes,
                   hotel_idx, size_idx, out>>

-----------------------------------------------------------------------------
(* print_comparison *)

\* lines 280-290: what the banner of one hotel shows
Header(key) ==
    [kind |-> "header", hotel |-> key, name |-> Hotels[key].name,
     max_capacity |-> get_max_capacity(Hotels[key]),
     standard_count |-> Hotels[key].inventory.standard_count,
     superior_count |-> Hotels[key].inventory.superior_count]

\* lines 295-300: the row of a size that was priced
ValuesRow(key, c, people, acc, n) ==
    LET meals_per_person == calculate_meal_cost(n)
        coffee_per_person == calculate_coffee_break_cost(c, n)
        meeting_per_person == calculate_meeting_room_cost(c, people)
        total_per_person ==
            SumOfComponents(acc, meals_per_person, coffee_per_person, meeting_per_person)
    IN  [kind |-> "values", hotel |-> key, num_people |-> people,
         accommodation_per_person |-> acc,
         meals_per_person |-> meals_per_person,
         coffee_per_person |-> coffee_per_person,
         meeting_per_person |-> meeting_per_person,
         total_per_person |-> total_per_person,
         total_cost |-> FracTimesInt(total_per_person, people)]

\* line 302: the row of a size whose pricing raised ValueError
NARow(key, people, e) ==
    [kind |-> "N/A", hotel |-> key, num_people |-> people, error |-> e]

\* line 279: for hotel_key, config in self.hotels.items()
HotelLoop ==
    /\ pc = "hotel"
    /\ IF hotel_idx > Len(HotelKeys)
       THEN /\ pc' = "done"
            /\ UNCHANGED <<hotel_key, config, size_idx, out>>
       ELSE /\ hotel_key' = HotelKeys[hotel_idx]
            /\ config' = Hotels[HotelKeys[hotel_idx]]
            /\ out' = Append(out, Header(HotelKeys[hotel_idx]))
            /\ size_idx' = 1
            /\ pc' = "size"
    /\ UNCHANGED <<entry, nights, num_people, allocation, people_remaining, err,
                   accommodation, result, group_sizes, hotel_idx>>

\* lines 292-294: for num_people in group_sizes: try: calculate_accommodation_cost
SizeLoop ==
    /\ pc = "size"
    /\ IF size_idx > Len(group_sizes)
       THEN /\ hotel_idx' = hotel_idx + 1
            /\ pc' = "hotel"
            /\ UNCHANGED <<num_people, allocation, people_remaining, err, accommodation>>
       ELSE /\ num_people' = group_sizes[size_idx]
            /\ allocation' = None
            /\ people_remaining' = 0
            /\ err' = NoErr
            /\ accommodation' = None
            /\ pc' = "calculate_accommodation_cost"
            /\ UNCHANGED hotel_idx
    /\ UNCHANGED <<entry, nights, config, hotel_key, result, group_sizes, size_idx, out>>

\* lines 295-300: the remaining components, the totals, the printed row
RowValues ==
    /\ pc = "costs"
    /\ entry = "print_comparison"
    /\ out' = Append(out, ValuesRow(hotel_key, config, num_people, accommodation, nights))
    /\ size_idx' = size_idx + 1
    /\ pc' = "size"
    /\ UNCHANGED <<entry, nights, config, hotel_key, num_people, allocation,
                   people_remaining, err, accommodation, result, group_sizes, hotel_idx>>

\* a slip: the handler prints the N/A row and leaves the report
RowError_Abort ==
    /\ pc = "raised"
    /\ entry = "print_comparison"
    /\ err.type = "ValueError"
    /\ out' = Append(out, NARow(hotel_key, num_people, err))
    /\ pc' = "done"
    /\ UNCHANGED <<entry, nights, config, hotel_key, num_people, allocation,
                   people_remaining, err, accommodation, result, group_sizes,
                   hotel_idx, size_idx>>

\* a slip: the handler catches every exception
RowError_CatchAll ==
    /\ pc = "raised"
    /\ entry = "print_comparison"
    /\ out' = Append(out, NARow(hotel_key, num_people, err))
    /\ size_idx' = size_idx + 1
    /\ pc' = "size"
    /\ UNCHANGED <<entry, nights, config, hotel_key, num_people, allocation,
                   people_remaining, err, accommodation, result, group_sizes, hotel_idx>>

\* lines 301-302: except ValueError as e: the N/A row, and on to the next size
RowError ==
    /\ pc = "raised"
    /\ entry = "print_comparison"
    /\ err.type = "ValueError"
    /\ out' = Append(out, NARow(hotel_key, num_people, err))
    /\ size_idx' = size_idx + 1
    /\ pc' = "size"
    /\ UNCHANGED <<entry, nights, config, hotel_key, num_people, allocation,
                   people_remaining, err, accommodation, result, group_sizes, hotel_idx>>

\* an exception no handler of print_comparison matches leaves print_comparison
Propagate ==
    /\ pc = "raised"
    /\ entry = "print_comparison"
    /\ err.type # "ValueError"
    /\ pc' = "aborted"
    /\ UNCHANGED <<entry, nights, config, hotel_key, num_people, allocation,
                   people_remaining, err, accommodation, result, group_sizes,
                   hotel_idx, size_idx, out>>

-----------------------------------------------------------------------------
(* Specifications *)

Next ==
    \/ AllocateRoomsCall
    \/ TotalPriceCall
    \/ PrintComparisonCall
    \/ CalculateAccommodationCost
    \/ AllocateRooms
    \/ AllocateSharedRooms
    \/ AllocateSingleRooms
    \/ AllocateRoomsReturn
    \/ AccommodationReturn
    \/ TotalPriceReturn
    \/ HotelLoop
    \/ SizeLoop
    \/ RowValues
    \/ RowError
    \/ Propagate

Spec == Init /\ [][Next]_vars

\* the same program with the global NIGHTS set to any small value
SpecDuration == InitDuration /\ [][Next]_vars

-----------------------------------------------------------------------------
(* Vocabulary of the properties.  Nothing below is read by the actions.    *)

\* people housed by an allocation
Housed(a) ==
    2 * a.standard_shared + a.standard_single +
    2 * a.superior_shared + a.superior_single

\* capacity as the documentation states it: two people in every room
Capacity(c) == 2 * (c.inventory.standard_count + c.inventory.superior_count)

WithinInventory(a, c) ==
    /\ a.standard_shared >= 0 /\ a.standard_single >= 0
    /\ a.superior_shared >= 0 /\ a.superior_single >= 0
    /\ a.standard_shared + a.standard_single <= c.inventory.standard_count
    /\ a.superior_shared + a.superior_single <= c.inventory.superior_count

\* every allocation that houses exactly n people within the inventory of c
Feasible(c, n) ==
    UNION { UNION { { [standard_shared |-> ss, standard_single |-> st,
                       superior_shared |-> ps,
                       superior_single |-> n - 2 * ss - st - 2 * ps] :
                      ps \in { q \in 0..c.inventory.superior_count :
                                 /\ n - 2 * ss - st - 2 * q >= 0
                                 /\ n - 2 * ss - st - 2 * q
                                      <= c.inventory.superior_count - q } } :
                    st \in 0..(c.inventory.standard_count - ss) } :
            ss \in 0..c.inventory.standard_count }

DailyCost(a, c) == get_total_cost(a, c.rates, 1)

\* no feasible allocation is strictly cheaper than a
Cheapest(a, c, n) ==
    \A b \in Feasible(c, n) : DailyCost(b, c) >= DailyCost(a, c)

\* a configuration is in use and the group size is between 1 and the capacity
InRange == config # None /\ num_people >= 1 /\ num_people <= Capacity(config)

\* every shared rate per person is at most every single rate
SharedPerPersonAtMostSingle(c) ==
    \A s \in {c.rates.standard.shared_rate, c.rates.superior.shared_rate},
       t \in {c.rates.standard.single_rate, c.rates.superior.single_rate} :
          s <= 2 * t

\* the category whose shared rate is lower (standard on a tie)
CheaperSharedCategory(c) ==
    IF c.rates.standard.shared_rate <= c.rates.superior.shared_rate
    THEN "standard" ELSE "superior"

CountOf(c, cat) ==
    IF cat = "standard" THEN c.inventory.standard_count
                        ELSE c.inventory.superior_count

\* shared_rate - single_rate of a category
Surcharge(c, cat) ==
    IF cat = "standard"
    THEN c.rates.standard.shared_rate - c.rates.standard.single_rate
    ELSE c.rates.superior.shared_rate - c.rates.superior.single_rate

OtherCategory(cat) == IF cat = "standard" THEN "superior" ELSE "standard"

\* an odd group that overflows the cheaper shared category
OddOverflow(c, n) ==
    n % 2 = 1 /\ n > 2 * CountOf(c, CheaperSharedCategory(c))

SurchargeOrdered(c) ==
    Surcharge(c, CheaperSharedCategory(c))
        <= Surcharge(c, OtherCategory(CheaperSharedCategory(c)))

\* the fraction f rounds to the amount of `cents` hundredths: |f - cents/100| <= 0.005
Approx(f, cents) ==
    LET d == 100 * f.num - cents * f.den
        absd == IF d < 0 THEN -d ELSE d
        absden == IF f.den < 0 THEN -f.den ELSE f.den
    IN  2 * absd <= absden

\* the fraction f rounds to the whole amount `units`: |f - units| <= 0.5
ApproxWhole(f, units) ==
    LET d == f.num - units * f.den
        absd == IF d < 0 THEN -d ELSE d
        absden == IF f.den < 0 THEN -f.den ELSE f.den
    IN  2 * absd <= absden

FracEq(f, g) == f.num * g.den = g.num * f.den

ElHierro30 ==
    /\ entry = "total_price" /\ hotel_key = "el_hierro"
    /\ num_people = 30 /\ nights = 5

ElHierro45 ==
    /\ config = Hotels["el_hierro"] /\ num_people = 45

\* the row print_comparison owes one size of one hotel, from the size alone
RowOf(key, n) ==
    LET c == Hotels[key]
    IN  IF n > Capacity(c)
        THEN NARow(key, n, ExceedsError(n, Capacity(c)))
        ELSE LET sh == _allocate_shared_rooms(c, RoomAllocation, n)
                 si == _allocate_single_rooms(c, sh.allocation, sh.people_remaining)
             IN  ValuesRow(key, c, n,
                           Frac(get_total_cost(si.allocation, c.rates, nights), n),
                           nights)

\* the whole report owed for a list of sizes: per hotel a header, then a row per size
ExpectedReport(sizes) ==
    LET block(key) == <<Header(key)>> \o [i \in 1..Len(sizes) |-> RowOf(key, sizes[i])]
    IN  block(HotelKeys[1]) \o block(HotelKeys[2])

IsPrefix(s, t) ==
    /\ Len(s) <= Len(t)
    /\ \A i \in 1..Len(s) : s[i] = t[i]

AllPositive(sizes) == \A i \in 1..Len(sizes) : sizes[i] > 0

-----------------------------------------------------------------------------
(* The properties *)

\* C1: for non-negative room counts and 1 <= N <= capacity, allocate_rooms does
\* not raise (the final check finds nobody left) and returns an allocation that
\* houses exactly N people, within both inventories, with no negative count.
C1_AllocationSound ==
    InRange =>
        /\ pc # "raised"
        /\ (pc = "check" => people_remaining = 0)
        /\ (pc = "returned" =>
              /\ Housed(allocation) = num_people
              /\ WithinInventory(allocation, config))

\* C1 witness: an odd group one short of a full two-category hotel was returned
C1_Witness ==
    /\ pc = "returned" /\ entry = "allocate_rooms" /\ InRange
    /\ config.inventory.standard_count > 0
    /\ config.inventory.superior_count > 0
    /\ num_people = Capacity(config) - 1

\* C2: for N > 2*(standard_count + superior_count), allocate_rooms raises the
\* capacity error before any allocation exists or either phase runs, and the
\* error names N and the maximum capacity.
C2_CapacityExceeded ==
    (/\ config # None
     /\ num_people > Capacity(config)
     /\ pc \in {"allocate_rooms", "shared", "single", "check", "returned", "raised"})
    => /\ pc \in {"allocate_rooms", "raised"}
       /\ allocation = None
       /\ (pc = "raised" =>
             /\ err.type = "ValueError"
             /\ err.message = "Group size exceeds hotel maximum capacity"
             /\ err.group_size = num_people
             /\ err.max_capacity = Capacity(config))

\* C2 witness: the capacity error was raised for a hotel that has superior rooms
C2_Witness ==
    /\ pc = "raised" /\ config # None
    /\ num_people > Capacity(config)
    /\ config.inventory.superior_count > 0
    /\ err.type = "ValueError"

\* C3: for El Hierro and La Palma and 1 <= N <= capacity, no allocation that
\* houses exactly N people within the inventory costs strictly less than the
\* one allocate_rooms returns.
C3_ConfiguredHotelsOptimal ==
    (/\ pc = "returned"
     /\ config \in {Hotels["el_hierro"], Hotels["la_palma"]}
     /\ InRange)
    => Cheapest(allocation, config, num_people)

\* C3 witness: La Palma returned an allocation for an odd group that overflows
\* its standard rooms
C3_Witness ==
    /\ pc = "returned" /\ entry = "total_price"
    /\ config = Hotels["la_palma"]
    /\ num_people = 47
    /\ allocation.superior_single = 1

C5_Original ==
    ElHierro45 =>
        /\ (pc = "single" => people_remaining = 5)
        /\ (pc = "returned" =>
              allocation = [standard_shared |-> 20, standard_single |-> 0,
                            superior_shared |-> 0, superior_single |-> 5])

\* C5 amended: El Hierro, N = 45: the shared phase seats 44 people in 20
\* standard and 2 superior shared rooms and leaves 1, who gets a superior
\* single room; 45 people are housed.
C5_Amended ==
    ElHierro45 =>
        /\ (pc = "single" =>
              /\ people_remaining = 1
              /\ allocation = [standard_shared |-> 20, standard_single |-> 0,
                               superior_shared |-> 2, superior_single |-> 0])
        /\ (pc = "returned" =>
              /\ allocation = [standard_shared |-> 20, standard_single |-> 0,
                               superior_shared |-> 2, superior_single |-> 1]
              /\ Housed(allocation) = 45)

\* C5 witness: allocate_rooms returned for El Hierro and 45 people
C5_Witness == pc = "returned" /\ ElHierro45 /\ entry = "total_price"

\* the components of C6 that the claim and its amendment share
C6_Components ==
    /\ allocation = [standard_shared |-> 15, standard_single |-> 0,
                     superior_shared |-> 0, superior_single |-> 0]
    /\ get_total_cost(allocation, config.rates, nights) = 11850
    /\ FracEq(accommodation, Frac(395, 1))
    /\ calculate_meal_cost(nights) = 418
    /\ calculate_coffee_break_cost(config, nights) = 42
    /\ FracEq(calculate_meeting_room_cost(config, num_people), Frac(200, 30))

\* C6 as claimed: El Hierro, NIGHTS = 5, N = 30: 15 standard shared rooms,
\* 11850 accommodation (395 a head), meals 418, coffee 42, meeting room 200/30,
\* and a total per person of about 1061.67 (about 31850 for the group).
C6_Original ==
    (ElHierro30 /\ pc = "done") =>
        /\ C6_Components
        /\ Approx(result, 106167)
        /\ ApproxWhole(FracTimesInt(result, 30), 31850)

\* C6 amended: the same components, and a total per person, their sum, of
\* about 861.67 (25850 for the group).
C6_Amended ==
    (ElHierro30 /\ pc = "done") =>
        /\ C6_Components
        /\ Approx(result, 86167)
        /\ ApproxWhole(FracTimesInt(result, 30), 25850)

\* C6 witness: the total price for El Hierro and 30 people was returned
C6_Witness == ElHierro30 /\ pc = "done" /\ result # None

\* C7: for a list of positive sizes the report is never aborted, prints per
\* hotel one row per size in list order, an N/A row carrying the error for a size
\* over capacity, and every row is the one its size alone determines.
C7_ReportContinues ==
    (entry = "print_comparison" /\ AllPositive(group_sizes)) =>
        /\ pc # "aborted"
        /\ IsPrefix(out, ExpectedReport(group_sizes))
        /\ (pc = "done" => out = ExpectedReport(group_sizes))

\* C7 witness: a finished report whose first size failed for El Hierro and
\* whose second size was priced
C7_Witness ==
    /\ entry = "print_comparison" /\ pc = "done"
    /\ group_sizes = <<85, 30>>
    /\ out[2].kind = "N/A" /\ out[3].kind = "values"

\* C8: with NIGHTS < 2 no price is produced: the total price is not returned
\* and no priced row is printed.
C8_InvalidDuration ==
    nights < 2 =>
        /\ pc # "done" \/ entry # "total_price"
        /\ result = None
        /\ \A i \in 1..Len(out) : out[i].kind # "values"

\* C9: for 1 <= N <= capacity the shared phase leaves N mod 2 people, and the
\* returned allocation uses N mod 2 single rooms in all.
C9_AtMostOneSingle ==
    InRange =>
        /\ (pc = "single" => people_remaining = num_people % 2)
        /\ (pc = "returned" =>
              allocation.standard_single + allocation.superior_single
                  = num_people % 2)

\* C9 witness: an odd group larger than either category alone was returned
C9_Witness ==
    /\ pc = "returned" /\ entry = "allocate_rooms" /\ InRange
    /\ num_people % 2 = 1
    /\ num_people > 2 * config.inventory.standard_count
    /\ num_people > 2 * config.inventory.superior_count

\* C10: for N <= 0 the allocator raises nothing and holds the all-zero
\* allocation throughout; a size of 0 then fails in the division with an error
\* that is no ValueError, which ends print_comparison with no row for that size
\* and nothing more printed.
C10_NonPositiveSize ==
    /\ (num_people <= 0 /\ pc \in {"shared", "single", "check", "returned"}) =>
          allocation = RoomAllocation /\ err = NoErr
    /\ (num_people <= 0 /\ config # None /\ pc = "raised") =>
          num_people = 0 /\ err = ZeroDivisionError /\ allocation = RoomAllocation
    /\ (pc = "aborted" =>
          /\ num_people = 0 /\ err.type = "ZeroDivisionError"
          /\ ~ ENABLED Next)
    /\ \A i \in 1..Len(out) : out[i].kind # "header" => out[i].num_people # 0

\* C10 witness: a report aborted at a size of 0 with sizes still to come
C10_Witness ==
    /\ pc = "aborted" /\ num_people = 0
    /\ size_idx < Len(group_sizes)
    /\ hotel_idx = 1

====
